---- MODULE Spec2Model ----
(***************************************************************************)
(* A model of the yaaarc crate: the operator traits (operators.rs), the    *)
(* group-like trait graph and its reference instances Nat and Z            *)
(* (grouplike.rs), and the ring-like trait graph with its reference        *)
(* instances ZeroRing and Mod4 (ringlike.rs).                              *)
(*                                                                         *)
(* The crate has no state of its own; the state modelled here is that of a *)
(* client holding three values x, y, z of one conforming type and calling  *)
(* the trait methods on them.  x is always the receiver (self) and y the   *)
(* right-hand operand.                                                     *)
(***************************************************************************)
EXTENDS Integers, Sequences, FiniteSets, TLC

VARIABLES
    ty,               \* the conforming type the client works with
    overflow_checks,  \* whether the build panics on integer overflow (debug) or wraps (release)
    x, y, z,          \* the client's three values of type ty
    res,              \* outcome of the last method call
    last,             \* the last method call: name, tag, receiver before the call, rhs
    calls,            \* trait methods invoked during the last call: <<caller, callee, tag>>
    root, pending, seen, reqs   \* supertrait elaboration of one trait reference

vars == <<ty, overflow_checks, x, y, z, res, last, calls, root, pending, seen, reqs>>
clientVars == <<ty, overflow_checks, x, y, z, res, last, calls>>
elabVars == <<root, pending, seen, reqs>>

----
\* Bounds of the model.
MaxLen == 2      \* longest NewString literal the client constructs
MaxNat == 3      \* largest Nat the client keeps in x, y, z
MaxAbs == 2      \* largest |Z| the client keeps in x, y, z

\* Program constants.
U8Max == 255     \* Mod4 wraps a u8
Modulus == 4     \* the modulus of Mod4

Alphabet == {"a", "b"}

Types == {"NewString", "Nat", "Z", "Mod4", "ZeroRing"}
RingTypes == {"Mod4", "ZeroRing"}

\* The reference DivisionRing and Field instance: the prime field of P elements.
P == 7
FieldTypes == {"Fp"}
RingImpls == RingTypes \cup FieldTypes

\* The (type, tag) pairs with an `impl BinaryOperator<tag> for type`.
HasOp(t, tag) ==
    \/ t \in {"NewString", "Nat", "Z"} /\ tag = "Unit"
    \/ t \in RingImpls /\ tag \in {"Plus", "Times"}

\* The (type, tag) pairs with an `impl Semigroup<tag> for type`.
HasSemigroup(t, tag) ==
    \/ t \in {"Nat", "Z"} /\ tag = "Unit"
    \/ t \in RingTypes /\ tag \in {"Plus", "Times"}

\* The (type, tag) pairs with an `impl UnitalMagma<tag> for type`.
HasIdentity(t, tag) ==
    \/ t \in {"Nat", "Z"} /\ tag = "Unit"
    \/ t \in RingImpls /\ tag \in {"Plus", "Times"}

\* The (type, tag) pairs with an `impl Monoid<tag> for type`.
HasMonoid(t, tag) ==
    \/ t = "Nat" /\ tag = "Unit"
    \/ t \in RingTypes /\ tag = "Times"

\* The (type, tag) pairs with an `impl Quasigroup<tag> for type`.
HasInverse(t, tag) ==
    \/ t = "Z" /\ tag = "Unit"
    \/ t \in RingImpls /\ tag = "Plus"

\* A value of type t that stands in the fields of res and last that carry no value.
Default(t) ==
    CASE t = "NewString" -> <<>>
      [] t = "ZeroRing"  -> "ZeroRing"
      [] OTHER           -> 0

\* Outcomes of a call.
Out(kind, val, b) == [kind |-> kind, val |-> val, b |-> b]
Value(v) == Out("value", v, FALSE)
Some(v)  == Out("some", v, FALSE)
None     == Out("none", Default(ty), FALSE)
Bool(b)  == Out("bool", Default(ty), b)
Unit     == Out("unit", Default(ty), FALSE)
Panic    == Out("panic", Default(ty), FALSE)

\* u8 arithmetic: an out-of-range result panics with overflow checks and wraps without.
U8(n) ==
    IF n \in 0..U8Max THEN Value(n)
    ELSE IF overflow_checks THEN Panic
    ELSE Value(n % (U8Max + 1))

----
\* String::push_str: appends the characters of s to the buffer one by one.
RECURSIVE push_str(_, _)
push_str(buf, s) ==
    IF s = <<>> THEN buf ELSE push_str(Append(buf, Head(s)), Tail(s))

\* impl BinaryOperator<()> for NewString
NewString_op(self, rhs) == Value(self \o rhs)

\* op_assign with the arguments of push_str exchanged.
NewString_op_assign_swapped(self, rhs) == Value(push_str(rhs, self))

NewString_op_assign(self, rhs) == Value(push_str(self, rhs))

\* impl BinaryOperator<()> for Nat
Nat_op(self, rhs) == Value(self + rhs)
Nat_op_assign(self, rhs) == LET s1 == self + rhs IN Value(s1)

\* impl BinaryOperator<()> for Z
Z_op(self, rhs) == Value(self - rhs)
Z_op_assign(self, rhs) == LET s1 == self - rhs IN Value(s1)

\* impl BinaryOperator<Plus> for ZeroRing, impl BinaryOperator<Times> for ZeroRing
ZeroRing_op(tag, self, rhs) == Value("ZeroRing")
ZeroRing_op_assign(tag, self, rhs) == Value(self)

\* Mod4's sum with the reduction left out.
Mod4_Plus_op_noreduce(self, rhs) == U8(self + rhs)

\* impl BinaryOperator<Plus> for Mod4
Mod4_Plus_op(self, rhs) ==
    LET s == U8(self + rhs)
    IN  IF s.kind = "panic" THEN Panic ELSE Value(s.val % Modulus)

Mod4_Plus_op_assign(self, rhs) ==
    LET s1 == U8(self + rhs)
    IN  IF s1.kind = "panic" THEN Panic
        ELSE LET s2 == s1.val % Modulus IN Value(s2)

\* impl BinaryOperator<Times> for Mod4
Mod4_Times_op(self, rhs) ==
    LET p == U8(self * rhs)
    IN  IF p.kind = "panic" THEN Panic ELSE Value(p.val % Modulus)

Mod4_Times_op_assign(self, rhs) ==
    LET s1 == U8(self * rhs)
    IN  IF s1.kind = "panic" THEN Panic
        ELSE LET s2 == s1.val % Modulus IN Value(s2)

\* impl BinaryOperator<Plus> for Fp
Fp_Plus_op(self, rhs) == Value((self + rhs) % P)
Fp_Plus_op_assign(self, rhs) == LET s1 == self + rhs IN Value(s1 % P)

\* impl BinaryOperator<Times> for Fp
Fp_Times_op(self, rhs) == Value((self * rhs) % P)
Fp_Times_op_assign(self, rhs) == LET s1 == self * rhs IN Value(s1 % P)

\* BinaryOperator<tag>::op(&self, rhs) -> Self, dispatched on the impl.
op(t, tag, self, rhs) ==
    CASE t = "NewString" -> NewString_op(self, rhs)
      [] t = "Nat"       -> Nat_op(self, rhs)
      [] t = "Z"         -> Z_op(self, rhs)
      [] t = "ZeroRing"  -> ZeroRing_op(tag, self, rhs)
      [] t = "Mod4" /\ tag = "Plus"  -> Mod4_Plus_op(self, rhs)
      [] t = "Mod4" /\ tag = "Times" -> Mod4_Times_op(self, rhs)
      [] t = "Fp" /\ tag = "Plus"    -> Fp_Plus_op(self, rhs)
      [] t = "Fp" /\ tag = "Times"   -> Fp_Times_op(self, rhs)

\* BinaryOperator<tag>::op_assign(&mut self, rhs): the new value of the receiver.
op_assign(t, tag, self, rhs) ==
    CASE t = "NewString" -> NewString_op_assign(self, rhs)
      [] t = "Nat"       -> Nat_op_assign(self, rhs)
      [] t = "Z"         -> Z_op_assign(self, rhs)
      [] t = "ZeroRing"  -> ZeroRing_op_assign(tag, self, rhs)
      [] t = "Mod4" /\ tag = "Plus"  -> Mod4_Plus_op_assign(self, rhs)
      [] t = "Mod4" /\ tag = "Times" -> Mod4_Times_op_assign(self, rhs)
      [] t = "Fp" /\ tag = "Plus"    -> Fp_Plus_op_assign(self, rhs)
      [] t = "Fp" /\ tag = "Times"   -> Fp_Times_op_assign(self, rhs)

\* UnitalMagma<()>::IDENTITY of Nat and of Z
Nat_IDENTITY == 0
Z_IDENTITY == 0
\* UnitalMagma<Plus>::IDENTITY and UnitalMagma<Times>::IDENTITY of ZeroRing and Mod4
ZeroRing_IDENTITY(tag) == "ZeroRing"
Mod4_Plus_IDENTITY == 0
Mod4_Times_IDENTITY == 1
\* UnitalMagma<Plus>::IDENTITY and UnitalMagma<Times>::IDENTITY of Fp
Fp_Plus_IDENTITY == 0
Fp_Times_IDENTITY == 1

\* UnitalMagma<tag>::IDENTITY, dispatched on the impl.
IDENTITY(t, tag) ==
    CASE t = "Nat"      -> Nat_IDENTITY
      [] t = "Z"        -> Z_IDENTITY
      [] t = "ZeroRing" -> ZeroRing_IDENTITY(tag)
      [] t = "Mod4" /\ tag = "Plus"  -> Mod4_Plus_IDENTITY
      [] t = "Mod4" /\ tag = "Times" -> Mod4_Times_IDENTITY
      [] t = "Fp" /\ tag = "Plus"    -> Fp_Plus_IDENTITY
      [] t = "Fp" /\ tag = "Times"   -> Fp_Times_IDENTITY

\* impl Quasigroup<()> for Z
Z_inverse(self) == Value(0 - self)
\* impl Quasigroup<Plus> for ZeroRing
ZeroRing_inverse(self) == Value("ZeroRing")
\* impl Quasigroup<Plus> for Mod4
Mod4_inverse(self) == U8(Modulus - self)
\* impl Quasigroup<Plus> for Fp
Fp_Plus_inverse(self) == Value((P - self) % P)

\* Quasigroup<tag>::inverse(&self) -> Self, dispatched on the impl.
inverse(t, tag, self) ==
    CASE t = "Z" /\ tag = "Unit"        -> Z_inverse(self)
      [] t = "ZeroRing" /\ tag = "Plus" -> ZeroRing_inverse(self)
      [] t = "Mod4" /\ tag = "Plus"     -> Mod4_inverse(self)
      [] t = "Fp" /\ tag = "Plus"       -> Fp_Plus_inverse(self)

\* Ring::ZERO and Ring::ONE
ZeroRing_ZERO == "ZeroRing"
ZeroRing_ONE == "ZeroRing"
Mod4_ZERO == 0
Mod4_ONE == 1
Fp_ZERO == 0
Fp_ONE == 1
ZERO(t) == CASE t = "Mod4" -> Mod4_ZERO [] t = "ZeroRing" -> ZeroRing_ZERO [] t = "Fp" -> Fp_ZERO
ONE(t)  == CASE t = "Mod4" -> Mod4_ONE [] t = "ZeroRing" -> ZeroRing_ONE [] t = "Fp" -> Fp_ONE

\* A method outcome together with the trait-method calls made to produce it.
Ret(o, c) == [out |-> o, calls |-> c]

\* impl Ring for ZeroRing
ZeroRing_left_inverse_mul(self) == Ret(Some("ZeroRing"), <<>>)
ZeroRing_right_inverse_mul(self) == Ret(Some("ZeroRing"), <<>>)
ZeroRing_inverse_mul(self) == Ret(Some("ZeroRing"), <<>>)

\* Mod4's left_inverse_mul with a match arm that takes 2 for a unit.
Mod4_left_inverse_mul_two(self) ==
    CASE self = 1 -> Ret(Some(1), <<>>)
      [] self = 2 -> Ret(Some(2), <<>>)
      [] self = 3 -> Ret(Some(3), <<>>)
      [] OTHER    -> Ret(None, <<>>)

\* impl Ring for Mod4
Mod4_left_inverse_mul(self) ==
    CASE self = 1 -> Ret(Some(1), <<>>)
      [] self = 3 -> Ret(Some(3), <<>>)
      [] OTHER    -> Ret(None, <<>>)

\* Mod4's right_inverse_mul with a match of its own, whose arm for 3 answers 1.
Mod4_right_inverse_mul_own(self) ==
    CASE self = 1 -> Ret(Some(1), <<>>)
      [] self = 3 -> Ret(Some(1), <<>>)
      [] OTHER    -> Ret(None, <<>>)

Mod4_right_inverse_mul(self) ==
    LET r == Mod4_left_inverse_mul(self)
    IN  Ret(r.out, << <<"right_inverse_mul", "left_inverse_mul", "-">> >> \o r.calls)

Mod4_inverse_mul(self) ==
    LET r == Mod4_left_inverse_mul(self)
    IN  Ret(r.out, << <<"inverse_mul", "left_inverse_mul", "-">> >> \o r.calls)

\* b to the power e in Fp, by repeated multiplication.
RECURSIVE Fp_pow(_, _)
Fp_pow(b, e) == IF e = 0 THEN 1 ELSE (b * Fp_pow(b, e - 1)) % P

\* Fp's inverse_mul without the test for zero.
Fp_inverse_mul_nozero(self) == Ret(Some(Fp_pow(self, P - 2)), <<>>)

\* impl Ring for Fp: zero has no inverse, a nonzero x has x^(P-2).
Fp_inverse_mul(self) ==
    IF self = Fp_ZERO THEN Ret(None, <<>>)
    ELSE Ret(Some(Fp_pow(self, P - 2)), <<>>)

Fp_left_inverse_mul(self) ==
    LET r == Fp_inverse_mul(self)
    IN  Ret(r.out, << <<"left_inverse_mul", "inverse_mul", "-">> >> \o r.calls)

Fp_right_inverse_mul(self) ==
    LET r == Fp_inverse_mul(self)
    IN  Ret(r.out, << <<"right_inverse_mul", "inverse_mul", "-">> >> \o r.calls)

\* Ring::left_inverse_mul(&self) -> Option<Self>, dispatched on the impl.
left_inverse_mul(t, self) ==
    CASE t = "ZeroRing" -> ZeroRing_left_inverse_mul(self)
      [] t = "Mod4"     -> Mod4_left_inverse_mul(self)
      [] t = "Fp"       -> Fp_left_inverse_mul(self)

\* Ring::right_inverse_mul(&self) -> Option<Self>, dispatched on the impl.
right_inverse_mul(t, self) ==
    CASE t = "ZeroRing" -> ZeroRing_right_inverse_mul(self)
      [] t = "Mod4"     -> Mod4_right_inverse_mul(self)
      [] t = "Fp"       -> Fp_right_inverse_mul(self)

\* Ring::inverse_mul(&self) -> Option<Self>, dispatched on the impl.
inverse_mul(t, self) ==
    CASE t = "ZeroRing" -> ZeroRing_inverse_mul(self)
      [] t = "Mod4"     -> Mod4_inverse_mul(self)
      [] t = "Fp"       -> Fp_inverse_mul(self)

\* inverse_add delegating to the multiplicative inverse.
inverse_add_mul(t, self) ==
    LET r == inverse_mul(t, self)
    IN  Ret(r.out, << <<"inverse_add", "inverse_mul", "-">> >> \o r.calls)

\* Ring::inverse_add(&self) -> Self (provided method)
inverse_add(t, self) ==
    Ret(inverse(t, "Plus", self), << <<"inverse_add", "inverse", "Plus">> >>)

\* is_unit asking for a left inverse only.
is_unit_left(t, self) ==
    LET r == left_inverse_mul(t, self)
    IN  Ret(Bool(r.out.kind = "some"), << <<"is_unit", "left_inverse_mul", "-">> >> \o r.calls)

\* Ring::is_unit(&self) -> bool (provided method)
is_unit(t, self) ==
    LET r == inverse_mul(t, self)
    IN  Ret(Bool(r.out.kind = "some"), << <<"is_unit", "inverse_mul", "-">> >> \o r.calls)

\* Any outcome of a call whose contract is broken: a panic or any value of Fp.
Fp_Any == {Panic} \cup {Value(v) : v \in 0..(P - 1)}

\* impl Quasigroup<Times> for Fp (through Group<Times>): the outcomes of
\* inverse(&self).  A nonzero x has the one i with x*i = 1; zero has no inverse,
\* and what the total function returns for it is not determined.
Fp_Times_inverse(self) ==
    IF self = Fp_ZERO THEN Fp_Any
    ELSE {Value(CHOOSE i \in 1..(P - 1) : (self * i) % P = 1)}

\* impl DivisionRing for Fp: the outcomes of div_right(&self, rhs), self * rhs^-1.
\* A zero rhs is undefined behaviour.
Fp_div_right(self, rhs) ==
    IF rhs = Fp_ZERO THEN {Ret(o, <<>>) : o \in Fp_Any}
    ELSE {Ret(Fp_Times_op(self, i.val),
              << <<"div_right", "inverse", "Times">>, <<"div_right", "op", "Times">> >>)
            : i \in Fp_Times_inverse(rhs)}

\* impl DivisionRing for Fp: the outcomes of div_left(&self, rhs), rhs^-1 * self.
Fp_div_left(self, rhs) ==
    IF rhs = Fp_ZERO THEN {Ret(o, <<>>) : o \in Fp_Any}
    ELSE {Ret(Fp_Times_op(i.val, self),
              << <<"div_left", "inverse", "Times">>, <<"div_left", "op", "Times">> >>)
            : i \in Fp_Times_inverse(rhs)}

\* Fp's div multiplying by rhs instead of by its inverse.
Fp_div_noinverse(self, rhs) ==
    {Ret(Fp_Times_op(self, rhs), << <<"div", "op", "Times">> >>)}

\* impl Field for Fp: the outcomes of div(&self, rhs), which calls div_right.
Fp_div(self, rhs) ==
    {Ret(r.out, << <<"div", "div_right", "-">> >> \o r.calls) : r \in Fp_div_right(self, rhs)}

----
\* The client.

Strings == UNION {[1..n -> Alphabet] : n \in 0..MaxLen}

\* The literals the client passes to the tuple-struct constructors NewString, Nat and Z.
Literals(t) ==
    CASE t = "NewString" -> Strings
      [] t = "Nat"       -> 0..MaxNat
      [] t = "Z"         -> (0 - MaxAbs)..MaxAbs
      [] OTHER           -> {}

\* The values the client keeps: the model's bound on the unbounded types.
Kept(t, v) ==
    CASE t = "NewString" -> Len(v) <= MaxLen
      [] t = "Nat"       -> v <= MaxNat
      [] t = "Z"         -> v >= 0 - MaxAbs /\ v <= MaxAbs
      [] OTHER           -> TRUE

Idle == [name |-> "none", tag |-> "-", self |-> Default(ty), rhs |-> Default(ty)]
Call(name, tag, self, rhs) == [name |-> name, tag |-> tag, self |-> self, rhs |-> rhs]

Running == res.kind # "panic"

ClientInit ==
    /\ ty \in Types
    /\ overflow_checks \in BOOLEAN
    /\ x = (IF ty \in RingTypes THEN ZERO(ty) ELSE Default(ty))
    /\ y = x
    /\ z = x
    /\ res = Unit
    /\ last = Idle
    /\ calls = <<>>

ElabIdle ==
    /\ root = <<"BinaryOperator", "Unit">>
    /\ pending = {}
    /\ seen = {}
    /\ reqs = {}

\* let x = NewString(v) / Nat(v) / Z(v)
Construct ==
    /\ Running
    /\ \E v \in Literals(ty) : x' = v
    /\ res' = Unit /\ last' = Idle /\ calls' = <<>>
    /\ UNCHANGED <<ty, overflow_checks, y, z, elabVars>>

\* let x = Self::ZERO / Self::ONE
LoadConst ==
    /\ Running
    /\ ty \in RingImpls
    /\ \E c \in {ZERO(ty), ONE(ty)} : x' = c
    /\ res' = Unit /\ last' = Idle /\ calls' = <<>>
    /\ UNCHANGED <<ty, overflow_checks, y, z, elabVars>>

\* let x = <Self as UnitalMagma<tag>>::IDENTITY
LoadIdentity ==
    /\ Running
    /\ \E tag \in {"Unit", "Plus", "Times"} :
          /\ HasIdentity(ty, tag)
          /\ x' = IDENTITY(ty, tag)
    /\ res' = Unit /\ last' = Idle /\ calls' = <<>>
    /\ UNCHANGED <<ty, overflow_checks, y, z, elabVars>>

\* (x, y, z) = (y, z, x)
Rotate ==
    /\ Running
    /\ x' = y /\ y' = z /\ z' = x
    /\ res' = Unit /\ last' = Idle /\ calls' = <<>>
    /\ UNCHANGED <<ty, overflow_checks, elabVars>>

\* let x = <the value returned by the last call>
Bind ==
    /\ Running
    /\ res.kind \in {"value", "some"}
    /\ Kept(ty, res.val)
    /\ x' = res.val
    /\ res' = Unit /\ last' = Idle /\ calls' = <<>>
    /\ UNCHANGED <<ty, overflow_checks, y, z, elabVars>>

\* x.op(y)
Op ==
    /\ Running
    /\ \E tag \in {"Unit", "Plus", "Times"} :
          /\ HasOp(ty, tag)
          /\ res' = op(ty, tag, x, y)
          /\ last' = Call("op", tag, x, y)
    /\ calls' = <<>>
    /\ UNCHANGED <<ty, overflow_checks, x, y, z, elabVars>>

\* x.op_assign(y)
OpAssign ==
    /\ Running
    /\ \E tag \in {"Unit", "Plus", "Times"} :
          /\ HasOp(ty, tag)
          /\ LET r == op_assign(ty, tag, x, y)
             IN  /\ r.kind = "value" => Kept(ty, r.val)
                 /\ x' = (IF r.kind = "value" THEN r.val ELSE x)
                 /\ res' = (IF r.kind = "value" THEN Unit ELSE r)
          /\ last' = Call("op_assign", tag, x, y)
    /\ calls' = <<>>
    /\ UNCHANGED <<ty, overflow_checks, y, z, elabVars>>

\* x.inverse()
Inverse ==
    /\ Running
    /\ \E tag \in {"Unit", "Plus", "Times"} :
          /\ HasInverse(ty, tag)
          /\ res' = inverse(ty, tag, x)
          /\ last' = Call("inverse", tag, x, Default(ty))
    /\ calls' = <<>>
    /\ UNCHANGED <<ty, overflow_checks, x, y, z, elabVars>>

\* A call of one of the Ring methods on x.
RingCall(name, r) ==
    /\ Running
    /\ ty \in RingImpls
    /\ res' = r.out
    /\ calls' = r.calls
    /\ last' = Call(name, "-", x, Default(ty))
    /\ UNCHANGED <<ty, overflow_checks, x, y, z, elabVars>>

LeftInverseMul  == RingCall("left_inverse_mul", left_inverse_mul(ty, x))
RightInverseMul == RingCall("right_inverse_mul", right_inverse_mul(ty, x))
InverseMul      == RingCall("inverse_mul", inverse_mul(ty, x))
InverseAdd      == RingCall("inverse_add", inverse_add(ty, x))
IsUnit          == RingCall("is_unit", is_unit(ty, x))

\* x.inverse() under Times, on a type with Group<Times>
InverseTimes ==
    /\ Running
    /\ ty \in FieldTypes
    /\ res' \in Fp_Times_inverse(x)
    /\ last' = Call("inverse", "Times", x, Default(ty))
    /\ calls' = <<>>
    /\ UNCHANGED <<ty, overflow_checks, x, y, z, elabVars>>

\* A call of one of the division methods on x with rhs y.
FieldCall(name, rs) ==
    /\ Running
    /\ ty \in FieldTypes
    /\ \E r \in rs : res' = r.out /\ calls' = r.calls
    /\ last' = Call(name, "-", x, y)
    /\ UNCHANGED <<ty, overflow_checks, x, y, z, elabVars>>

DivRight == FieldCall("div_right", Fp_div_right(x, y))
DivLeft  == FieldCall("div_left", Fp_div_left(x, y))
Div      == FieldCall("div", Fp_div(x, y))

\* The client of the field instance.
InitField ==
    /\ ty = "Fp"
    /\ overflow_checks = TRUE
    /\ x = Fp_ZERO /\ y = Fp_ZERO /\ z = Fp_ZERO
    /\ res = Unit
    /\ last = Idle
    /\ calls = <<>>
    /\ ElabIdle

NextField ==
    \/ LoadConst
    \/ LoadIdentity
    \/ Rotate
    \/ Bind
    \/ Op
    \/ OpAssign
    \/ Inverse
    \/ InverseTimes
    \/ LeftInverseMul
    \/ RightInverseMul
    \/ InverseMul
    \/ InverseAdd
    \/ IsUnit
    \/ DivRight
    \/ DivLeft
    \/ Div

SpecField == InitField /\ [][NextField]_vars

----
\* The trait graph.  A trait reference is <<trait, tag>>: the traits of
\* operators.rs and grouplike.rs are generic over the operator tag O, those of
\* ringlike.rs take no parameter (tag "-") and fix the tags of their supertraits.
\* (Ring's `Sized` bound is a language marker, not a trait of the crate.)

Tags == {"Unit", "Plus", "Times"}

GroupTraits == {"BinaryOperator", "Magma", "Semigroup", "Quasigroup", "UnitalMagma",
                "CommutativeMagma", "Monoid", "AssociativeQuasigroup", "Loop",
                "CommutativeMonoid", "Group", "AbelianGroup"}

RingTraits == {"Ring", "DivisionRing", "CommutativeRing", "IntegralDomain",
               "UniqueFactorisationDomain", "PrincipalIdealDomain", "GCDDomain",
               "EuclideanDomain", "Field"}

TraitRefs == (GroupTraits \X Tags) \cup (RingTraits \X {"-"})

\* The supertrait bounds with Quasigroup missing from AbelianGroup and
\* Magma bounded by Semigroup.
GroupSupertraits_bad(t, O) ==
    CASE t = "BinaryOperator"        -> {}
      [] t = "Magma"                 -> {<<"BinaryOperator", O>>, <<"Semigroup", O>>}
      [] t = "Semigroup"             -> {<<"Magma", O>>}
      [] t = "Quasigroup"            -> {<<"Magma", O>>}
      [] t = "UnitalMagma"           -> {<<"Magma", O>>}
      [] t = "CommutativeMagma"      -> {<<"Magma", O>>}
      [] t = "Monoid"                -> {<<"Semigroup", O>>, <<"UnitalMagma", O>>}
      [] t = "AssociativeQuasigroup" -> {<<"Semigroup", O>>, <<"Quasigroup", O>>}
      [] t = "Loop"                  -> {<<"Quasigroup", O>>, <<"UnitalMagma", O>>}
      [] t = "CommutativeMonoid"     -> {<<"Semigroup", O>>, <<"UnitalMagma", O>>,
                                         <<"CommutativeMagma", O>>}
      [] t = "Group"                 -> {<<"Semigroup", O>>, <<"UnitalMagma", O>>,
                                         <<"Quasigroup", O>>}
      [] t = "AbelianGroup"          -> {<<"Semigroup", O>>, <<"UnitalMagma", O>>,
                                         <<"CommutativeMagma", O>>}

\* The supertrait bounds of `pub trait T<O>: ...` in grouplike.rs.
GroupSupertraits(t, O) ==
    CASE t = "BinaryOperator"        -> {}
      [] t = "Magma"                 -> {<<"BinaryOperator", O>>}
      [] t = "Semigroup"             -> {<<"Magma", O>>}
      [] t = "Quasigroup"            -> {<<"Magma", O>>}
      [] t = "UnitalMagma"           -> {<<"Magma", O>>}
      [] t = "CommutativeMagma"      -> {<<"Magma", O>>}
      [] t = "Monoid"                -> {<<"Semigroup", O>>, <<"UnitalMagma", O>>}
      [] t = "AssociativeQuasigroup" -> {<<"Semigroup", O>>, <<"Quasigroup", O>>}
      [] t = "Loop"                  -> {<<"Quasigroup", O>>, <<"UnitalMagma", O>>}
      [] t = "CommutativeMonoid"     -> {<<"Semigroup", O>>, <<"UnitalMagma", O>>,
                                         <<"CommutativeMagma", O>>}
      [] t = "Group"                 -> {<<"Semigroup", O>>, <<"UnitalMagma", O>>,
                                         <<"Quasigroup", O>>}
      [] t = "AbelianGroup"          -> {<<"Semigroup", O>>, <<"UnitalMagma", O>>,
                                         <<"Quasigroup", O>>, <<"CommutativeMagma", O>>}

\* The supertrait bounds of `pub trait T: ...` in ringlike.rs.
RingSupertraits(t) ==
    CASE t = "Ring"                      -> {<<"AbelianGroup", "Plus">>, <<"Monoid", "Times">>}
      [] t = "DivisionRing"              -> {<<"Ring", "-">>, <<"Group", "Times">>}
      [] t = "CommutativeRing"           -> {<<"Ring", "-">>, <<"CommutativeMagma", "Times">>}
      [] t = "IntegralDomain"            -> {<<"CommutativeRing", "-">>}
      [] t = "UniqueFactorisationDomain" -> {<<"IntegralDomain", "-">>}
      [] t = "PrincipalIdealDomain"      -> {<<"UniqueFactorisationDomain", "-">>}
      [] t = "GCDDomain"                 -> {<<"PrincipalIdealDomain", "-">>}
      [] t = "EuclideanDomain"           -> {<<"PrincipalIdealDomain", "-">>}
      [] t = "Field"                     -> {<<"EuclideanDomain", "-">>, <<"DivisionRing", "-">>}

Supertraits(n) ==
    IF n[1] \in GroupTraits THEN GroupSupertraits(n[1], n[2]) ELSE RingSupertraits(n[1])

\* The methods and constants a trait declares without a body, as <<item, tag>>.
GroupItems(t, O) ==
    CASE t = "BinaryOperator" -> {<<"op", O>>, <<"op_assign", O>>}
      [] t = "Quasigroup"     -> {<<"inverse", O>>}
      [] t = "UnitalMagma"    -> {<<"IDENTITY", O>>}
      [] OTHER                -> {}

RingItems(t) ==
    CASE t = "Ring"            -> {<<"ZERO", "-">>, <<"ONE", "-">>, <<"left_inverse_mul", "-">>,
                                   <<"right_inverse_mul", "-">>, <<"inverse_mul", "-">>}
      [] t = "DivisionRing"    -> {<<"div_right", "-">>, <<"div_left", "-">>}
      [] t = "IntegralDomain"  -> {<<"associates", "-">>}
      [] t = "GCDDomain"       -> {<<"gcd", "-">>}
      [] t = "EuclideanDomain" -> {<<"valuation", "-">>}
      [] t = "Field"           -> {<<"div", "-">>}
      [] OTHER                 -> {}

Items(n) ==
    IF n[1] \in GroupTraits THEN GroupItems(n[1], n[2]) ELSE RingItems(n[1])

\* Elaboration of the bounds of one trait reference `root`: every supertrait
\* bound found is an obligation of an implementor of root, and so are the
\* items it declares.  `seen` holds the trait references root extends, directly
\* or transitively; `reqs` the items root requires.
ElabInit ==
    /\ root \in TraitRefs
    /\ pending = Supertraits(root)
    /\ seen = {}
    /\ reqs = Items(root)

ElabStep ==
    /\ \E n \in pending :
          /\ seen' = seen \cup {n}
          /\ reqs' = reqs \cup Items(n)
          /\ pending' = (pending \cup Supertraits(n)) \ (seen \cup {n})
    /\ UNCHANGED <<root, clientVars>>

ElabDone == pending = {}

ClientIdle ==
    /\ ty = "ZeroRing"
    /\ overflow_checks = TRUE
    /\ x = "ZeroRing" /\ y = "ZeroRing" /\ z = "ZeroRing"
    /\ res = Unit
    /\ last = Idle
    /\ calls = <<>>

InitTraits == ClientIdle /\ ElabInit
NextTraits == ElabStep
SpecTraits == InitTraits /\ [][NextTraits]_vars

Init == ClientInit /\ ElabIdle

Next ==
    \/ Construct
    \/ LoadConst
    \/ LoadIdentity
    \/ Rotate
    \/ Bind
    \/ Op
    \/ OpAssign
    \/ Inverse
    \/ LeftInverseMul
    \/ RightInverseMul
    \/ InverseMul
    \/ InverseAdd
    \/ IsUnit

Spec == Init /\ [][Next]_vars

----
\* Properties of the client (checked under Spec).

InverseQueries == {"left_inverse_mul", "right_inverse_mul", "inverse_mul"}

\* The residues of Mod4 and the one element of ZeroRing.
Carrier(t) == CASE t = "Mod4" -> 0..(Modulus - 1) [] t = "ZeroRing" -> {"ZeroRing"}

\* i is a two-sided multiplicative inverse of a.
IsInverseOf(t, i, a) ==
    /\ op(t, "Times", i, a) = Value(ONE(t))
    /\ op(t, "Times", a, i) = Value(ONE(t))

\* C1: on Mod4 and ZeroRing the three multiplicative inverse queries never
\* panic and answer Some(i) exactly when some i with i*x = x*i = ONE exists,
\* that i being such an inverse: in Mod4 1 -> Some(1), 3 -> Some(3), 0 and 2 ->
\* None; in ZeroRing, where ZERO = ONE, the one element -> Some(that element).
C1_InverseQueriesExact ==
    (ty \in RingTypes /\ last.name \in InverseQueries) =>
        /\ res.kind \in {"some", "none"}
        /\ (res.kind = "some") <=> (\E i \in Carrier(ty) : IsInverseOf(ty, i, last.self))
        /\ res.kind = "some" => IsInverseOf(ty, res.val, last.self)
        /\ (ty = "Mod4" /\ last.self = 1) => res = Some(1)
        /\ (ty = "Mod4" /\ last.self = 3) => res = Some(3)
        /\ (ty = "Mod4" /\ last.self \in {0, 2}) => res = None
        /\ ty = "ZeroRing" => (ZERO(ty) = ONE(ty) /\ res = Some(last.self))

C1_Witness ==
    /\ ty = "Mod4" /\ last.name = "right_inverse_mul" /\ last.self = 3
    /\ res = Some(3)

\* C2: is_unit(x) is true exactly when inverse_mul(x) is Some (Mod4: true for
\* 1 and 3, false for 0 and 2; ZeroRing: true), and the only method is_unit
\* itself calls is inverse_mul.
C2_IsUnitIffInverseMul ==
    (ty \in RingTypes /\ last.name = "is_unit") =>
        /\ res.kind = "bool"
        /\ res.b <=> (inverse_mul(ty, last.self).out.kind = "some")
        /\ \A k \in 1..Len(calls) :
              calls[k][1] = "is_unit" => calls[k][2] = "inverse_mul"
        /\ \E k \in 1..Len(calls) : calls[k][1] = "is_unit"
        /\ (ty = "Mod4" /\ last.self \in {1, 3}) => res.b
        /\ (ty = "Mod4" /\ last.self \in {0, 2}) => ~res.b
        /\ ty = "ZeroRing" => res.b

C2_Witness ==
    /\ ty = "Mod4" /\ last.name = "is_unit" /\ last.self = 2
    /\ res = Bool(FALSE)

C4_ZInverseLaw ==
    (ty = "Z" /\ last.name = "inverse") =>
        /\ IDENTITY("Z", "Unit") = 0
        /\ res = Value(0 - last.self)
        /\ op("Z", "Unit", last.self, res.val) = Value(IDENTITY("Z", "Unit"))
        /\ op("Z", "Unit", res.val, last.self) = Value(IDENTITY("Z", "Unit"))

\* C5: for every BinaryOperator impl, after x.op_assign(y) the receiver is the
\* value op(x_before, y) returns (or both panic), and op leaves its receiver
\* as it was.
C5_OpAssignAgreesWithOp ==
    /\ last.name = "op_assign" =>
          IF res.kind = "panic"
          THEN op(ty, last.tag, last.self, last.rhs).kind = "panic"
          ELSE op(ty, last.tag, last.self, last.rhs) = Value(x)
    /\ last.name = "op" =>
          /\ x = last.self
          /\ res.kind = "value" =>
                op_assign(ty, last.tag, last.self, last.rhs) = res

C5_Witness ==
    /\ ty = "NewString" /\ last.name = "op_assign"
    /\ last.self = <<"a">> /\ last.rhs = <<"b">>
    /\ x = <<"a", "b">>

Add(a, b) == op(ty, "Plus", a, b).val
Mul(a, b) == op(ty, "Times", a, b).val

\* C6: in Mod4 and ZeroRing, Times distributes over Plus on both sides.
C6_Distributive ==
    ty \in RingTypes =>
        /\ Mul(x, Add(y, z)) = Add(Mul(x, y), Mul(x, z))
        /\ Mul(Add(y, z), x) = Add(Mul(y, x), Mul(z, x))

C6_Witness ==
    /\ ty = "Mod4" /\ x = 3 /\ y = 2 /\ z = 3
    /\ last.name = "op" /\ last.tag = "Times" /\ res = Value(2)

\* C7: every declared Semigroup (Nat and Z under (), Mod4 and ZeroRing under
\* Plus and Times) is associative: op(op(x, y), z) = op(x, op(y, z)).
C7_Associative ==
    \A tag \in {"Unit", "Plus", "Times"} :
        HasSemigroup(ty, tag) =>
            op(ty, tag, op(ty, tag, x, y).val, z) = op(ty, tag, x, op(ty, tag, y, z).val)

\* C8: every declared Monoid (Nat under (), Mod4 and ZeroRing under Times) has
\* op(x, IDENTITY) = x and op(IDENTITY, x) = x.
C8_MonoidIdentity ==
    \A tag \in {"Unit", "Plus", "Times"} :
        HasMonoid(ty, tag) =>
            /\ op(ty, tag, x, IDENTITY(ty, tag)) = Value(x)
            /\ op(ty, tag, IDENTITY(ty, tag), x) = Value(x)

\* C9: in Mod4 and ZeroRing, when left_inverse_mul(x) and right_inverse_mul(x)
\* are both Some, they hold the same value and inverse_mul(x) is Some of it.
C9_OneSidedInversesAgree ==
    (ty \in RingTypes /\ last.name \in InverseQueries) =>
        LET l == left_inverse_mul(ty, last.self).out
            r == right_inverse_mul(ty, last.self).out
            i == inverse_mul(ty, last.self).out
        IN  (l.kind = "some" /\ r.kind = "some") =>
                /\ l.val = r.val
                /\ i = Some(l.val)
                /\ res = i

C9_Witness ==
    /\ ty = "Mod4" /\ last.name = "inverse_mul" /\ last.self = 3
    /\ res = Some(3)
    /\ left_inverse_mul(ty, 3).out.kind = "some"
    /\ right_inverse_mul(ty, 3).out.kind = "some"

\* C13: in Mod4 every value produced or stored, starting from ZERO and ONE, by
\* op, op_assign, the additive inverse and the multiplicative inverse queries
\* is one of Mod4(0) .. Mod4(3), so that equal residues are equal values.
C13_Mod4Representation ==
    ty = "Mod4" =>
        /\ {x, y, z} \subseteq Carrier("Mod4")
        /\ res.kind \in {"value", "some"} => res.val \in Carrier("Mod4")
        /\ \A v \in {x, y, z} : \A w \in {x, y, z} :
              (v % Modulus = w % Modulus) => v = w

----
\* Properties of the field instance (checked under SpecField).

\* C11: in a DivisionRing, inverse_mul(x) is None only for x = ZERO; for every
\* nonzero x it is Some(i) with x*i = i*x = ONE, and i is the value the
\* Times-tagged Quasigroup inverse(x) returns.
C11_DivisionRingInverseMul ==
    (ty \in FieldTypes /\ last.name = "inverse_mul") =>
        /\ res.kind \in {"some", "none"}
        /\ res.kind = "none" => last.self = ZERO(ty)
        /\ res.kind = "some" => IsInverseOf(ty, res.val, last.self)
        /\ last.self # ZERO(ty) =>
              /\ res.kind = "some"
              /\ Fp_Times_inverse(last.self) = {Value(res.val)}

C11_Witness ==
    /\ ty = "Fp" /\ last.name = "inverse_mul" /\ last.self = 3
    /\ res = Some(5)

----
\* Properties of the trait graph (checked under SpecTraits).

Depth == Cardinality(GroupTraits \cup RingTraits)

\* The items an implementor of n must supply: those n declares and those the
\* traits it is bounded by require, followed k bounds deep.
RECURSIVE Required(_, _)
Required(n, k) ==
    Items(n) \cup (IF k = 0 THEN {}
                   ELSE UNION {Required(p, k - 1) : p \in Supertraits(n)})

\* C10: no trait extends itself, directly or transitively; a trait requires
\* every item that a trait it extends requires, under the same tag; and
\* AbelianGroup requires all that Group does, CommutativeMonoid all that Monoid
\* does, Field all that Ring, CommutativeRing, IntegralDomain, EuclideanDomain
\* and DivisionRing do.
C10_ExtendsAcyclicInherits ==
    /\ root \notin seen
    /\ ElabDone =>
          /\ \A a \in seen : Required(a, Depth) \subseteq reqs
          /\ root[1] = "AbelianGroup" =>
                Required(<<"Group", root[2]>>, Depth) \subseteq reqs
          /\ root[1] = "CommutativeMonoid" =>
                Required(<<"Monoid", root[2]>>, Depth) \subseteq reqs
          /\ root[1] = "Field" =>
                \A a \in {"Ring", "CommutativeRing", "IntegralDomain",
                          "EuclideanDomain", "DivisionRing"} :
                    Required(<<a, "-">>, Depth) \subseteq reqs

C10_Witness ==
    /\ ElabDone /\ root = <<"Field", "-">>
    /\ <<"Ring", "-">> \in seen /\ <<"Group", "Times">> \in seen
    /\ <<"AbelianGroup", "Plus">> \in seen
    /\ {<<"inverse", "Plus">>, <<"inverse", "Times">>, <<"valuation", "-">>,
        <<"div_left", "-">>, <<"ZERO", "-">>} \subseteq reqs

====
